---- MODULE Spec2Model ----
(***************************************************************************)
(* Model of the processing pipeline of app3.py (main, lines 324-406) and   *)
(* of the stage functions it calls (extract_audio, transcribe_audio,       *)
(* summarize_text, check_sequence, extract_key_facts, check_contradictions,*)
(* formulate_questions).                                                   *)
(*                                                                         *)
(* One run of the pipeline starts when the button is pressed and ends at   *)
(* pc = "Done".  The external collaborators (file system, ffmpeg, the      *)
(* mp3 decoder, the speech service, the text-generation service) answer    *)
(* nondeterministically; what they answered is kept in env.                *)
(*                                                                         *)
(* Spec is the program as written: the two branches one after the other.   *)
(* SpecAnyOrder runs the same stage functions with the stages of the two   *)
(* branches in any order.  SpecSession is the page across script re-runs   *)
(* (every interaction re-runs main from the top), with the pipeline        *)
(* reduced to which result panels it renders.                              *)
(*                                                                         *)
(* Not modelled: the duration (passed through, never influences control    *)
(* flow), page styling.                                                    *)
(***************************************************************************)
EXTENDS Naturals, Sequences, FiniteSets, TLC

\* Number of times the button may be pressed (the script is re-run on each press).
MaxRuns == 2

\* How far the wall clock is followed, in half seconds.
MaxClock == 3

\* The two parties ("лицо №1", "лицо №2").
Party == {1, 2}

\* A text is a sequence of characters; "" is <<>>.
Space == " "
Empty == <<>>

\* Value of a local variable of main that has not been bound.
None == <<"<unbound>">>

\* Texts the speech service may return (transcript.text is used unstripped).
Transcripts == {Empty, <<Space>>, <<"x">>}

\* Raw contents the text-generation service may return.
Responses == {<<Space>>, <<Space, "y">>}

RECURSIVE LStrip(_)
LStrip(s) == IF s # <<>> /\ Head(s) = Space THEN LStrip(Tail(s)) ELSE s

RECURSIVE RStrip(_)
RStrip(s) ==
    IF s # <<>> /\ s[Len(s)] = Space THEN RStrip(SubSeq(s, 1, Len(s) - 1)) ELSE s

\* str.strip()
Strip(s) == RStrip(LStrip(s))

M18_Truthy(s) == s # None

\* Python truthiness of a str
Truthy(s) == s # Empty

\* Temporary files of the current run.
VideoFile(p) == <<p, "mp4">>
AudioFile(p) == <<p, "mp3">>

\* The analysis stages of a branch, in the order main calls them.
GenStages == {"summarize_text", "check_sequence", "extract_key_facts"}

VARIABLES
    runs,           \* button presses so far
    pc,             \* position of main
    party,          \* the branch main is in
    uploaded,       \* uploaded_file_1 / uploaded_file_2 is set
    transcription,  \* transcription1 / transcription2
    summary,        \* summary1 / summary2
    sequence_check, \* sequence_check1 / sequence_check2
    key_facts,      \* key_facts1 / key_facts2
    contradictions, \* contradictions (None while unbound)
    questions,      \* questions (None while unbound)
    caught,         \* the exception caught by main's except clause, per party
    cmp,            \* state of the comparison step
    shown,          \* parties whose result panel and download button are rendered
    disk,           \* temporary files of this run that exist
    messages,       \* st.error / st.warning reports of this run
    calls,          \* log of stage invocations of this run
    env,            \* what the external collaborators answered, per party
    preflight,      \* what check_ffmpeg / init_openai answered in this script run
    at,             \* SpecAnyOrder: the stage each branch is at
    clock,          \* SpecSession: wall clock, in half seconds
    case_number,    \* case_number of the current script run
    first_case,     \* SpecSession: case_number of the first script run
    language        \* the selected language

vars == <<runs, pc, party, uploaded, transcription, summary, sequence_check,
          key_facts, contradictions, questions, caught, cmp, shown, disk,
          messages, calls, env, preflight, at, clock, case_number, first_case,
          language>>

\* Variables the sequential pipeline never writes.
aux == <<at, clock, case_number, first_case, language>>

NoEnv == [extract |-> "na", rmVideo |-> "na", stt |-> <<"na">>, rmAudio |-> "na",
          summarize_text |-> <<"na">>, check_sequence |-> <<"na">>,
          extract_key_facts |-> <<"na">>]

NoGen == [contradictions |-> <<"na">>, questions |-> <<"na">>]

Msg(kind, src, p) == [kind |-> kind, src |-> src, party |-> p]

Call(fn, p, t1, t2) == [fn |-> fn, party |-> p, text1 |-> t1, text2 |-> t2]

\* The selectbox options (line 310); the first one is the default.
Languages == {"ru", "kk", "en"}

\* datetime.now() read off the clock: whole seconds, the fraction is dropped
\* by strftime('%H%M%S') (lines 103-104).
Seconds(c) == c \div 2

\* generate_case_number (lines 102-104)
generate_case_number(c) == <<"M", Seconds(c)>>

\* Outcomes of the checks at the top of main: check_ffmpeg fails (lines 270-272),
\* init_openai returns None (lines 282-285), or both pass.
PreflightOutcomes == {"ok", "no_ffmpeg", "no_client"}

PreflightMsgs(res) ==
    CASE res = "ok" -> <<>>
      [] res = "no_ffmpeg" -> <<Msg("error", "main", 0)>>
      [] res = "no_client" -> <<Msg("error", "init_openai", 0), Msg("error", "main", 0)>>

M_PreflightPasses(res) == res # "no_ffmpeg"

\* main goes past lines 270-285 to the form.
PreflightPasses(res) == res = "ok"

Init ==
    /\ runs = 0
    /\ pc = "Load"
    /\ preflight = "pending"
    /\ at = [p \in Party |-> "Wait"]
    /\ clock = 0
    /\ case_number = None
    /\ first_case = None
    /\ language = "ru"
    /\ party = 1
    /\ uploaded = [p \in Party |-> FALSE]
    /\ transcription = [p \in Party |-> Empty]
    /\ summary = [p \in Party |-> Empty]
    /\ sequence_check = [p \in Party |-> Empty]
    /\ key_facts = [p \in Party |-> Empty]
    /\ contradictions = None
    /\ questions = None
    /\ caught = [p \in Party |-> "none"]
    /\ cmp = "Pending"
    /\ shown = {}
    /\ disk = {}
    /\ messages = <<>>
    /\ calls = <<>>
    /\ env = [p \in Party |-> NoEnv] @@ (0 :> NoGen)

\* The first script run, no button pressed: lines 266-324, then the footer.
LoadPage ==
    /\ pc = "Load"
    /\ \E res \in PreflightOutcomes :
         /\ preflight' = res
         /\ messages' = PreflightMsgs(res)
         /\ pc' = IF PreflightPasses(res) THEN "Idle" ELSE "Stopped"
         /\ case_number' = IF PreflightPasses(res) THEN generate_case_number(clock)
                           ELSE None
    /\ first_case' = case_number'
    /\ UNCHANGED <<runs, party, uploaded, transcription, summary, sequence_check,
                   key_facts, contradictions, questions, caught, cmp, shown, disk,
                   calls, env, at, clock, language>>

\* The button is pressed: the script is re-run from the top (lines 266-328).
PressButton ==
    /\ pc \in {"Idle", "Done"}
    /\ runs < MaxRuns
    /\ runs' = runs + 1
    /\ \E up \in [Party -> BOOLEAN] : uploaded' = up
    /\ transcription' = [p \in Party |-> Empty]
    /\ summary' = [p \in Party |-> Empty]
    /\ sequence_check' = [p \in Party |-> Empty]
    /\ key_facts' = [p \in Party |-> Empty]
    /\ contradictions' = None
    /\ questions' = None
    /\ caught' = [p \in Party |-> "none"]
    /\ cmp' = "Pending"
    /\ shown' = {}
    /\ disk' = {}
    /\ calls' = <<>>
    /\ env' = [p \in Party |-> NoEnv] @@ (0 :> NoGen)
    /\ \E res \in PreflightOutcomes :
         /\ preflight' = res
         /\ messages' = PreflightMsgs(res)
         /\ pc' = IF PreflightPasses(res) THEN "Branch" ELSE "Stopped"
         /\ case_number' = IF PreflightPasses(res) THEN generate_case_number(clock)
                           ELSE None
    /\ party' = 1
    /\ UNCHANGED <<at, clock, first_case, language>>

M11_AfterBranch(p) == <<"Display", 2>>

\* Where main goes once the branch of party p has settled (lines 348-351, 368-370).
AfterBranch(p) == IF p = 1 THEN <<"Branch", 2>> ELSE <<"Display", 2>>

M_AfterBranchError(p) == <<"Done", p>>

M16_AfterBranchError(p) == <<"Extract", p>>

M17_AfterBranchError(p) == <<"Stopped", p>>

\* Where main goes after the except clause of the branch of party p
\* (lines 345-346 and 365-366): the clause only reports, then falls through.
AfterBranchError(p) == AfterBranch(p)

M_BranchRuns(up, p) == TRUE

\* "if uploaded_file_1:" / "if uploaded_file_2:" (lines 331, 351)
BranchRuns(up, p) == up[p]

\* Entering the branch of the current party (lines 331-332, 347-348, 351-352, 367-368).
BranchStart ==
    /\ pc = "Branch"
    /\ IF BranchRuns(uploaded, party)
       THEN /\ messages' = Append(messages, Msg("header", "main", party))
            /\ pc' = "Extract"
            /\ UNCHANGED party
       ELSE /\ messages' = Append(messages, Msg("warning", "main", party))
            /\ pc' = AfterBranch(party)[1]
            /\ party' = AfterBranch(party)[2]
    /\ UNCHANGED <<runs, uploaded, transcription, summary, sequence_check, key_facts,
                   contradictions, questions, caught, cmp, shown, disk, calls, env>>
    /\ UNCHANGED <<preflight, aux>>

\* A stage of the branch of party p has returned or raised inside main's try
\* block (lines 333-346, 353-366): on return main goes on to nxt, on a raise the
\* except clause records and reports the error and the branch is left.
Continue(p, raised, msgs, nxt) ==
    IF raised = "none"
    THEN /\ pc' = nxt[1]
         /\ party' = nxt[2]
         /\ messages' = messages \o msgs
         /\ UNCHANGED caught
    ELSE /\ caught' = [caught EXCEPT ![p] = raised]
         /\ messages' = (messages \o msgs) \o <<Msg("error", "main", p)>>
         /\ pc' = AfterBranchError(p)[1]
         /\ party' = AfterBranchError(p)[2]

\* What can happen inside extract_audio before its finally clause:
\*   write_fail            writing the temporary video raises (lines 117-119)
\*   exit_nonzero          ffmpeg exits non-zero, no output file (lines 124-130)
\*   exit_nonzero_partial  ffmpeg exits non-zero after writing (part of) the output
\*   decode_fail           ffmpeg succeeds, AudioSegment.from_mp3 raises (line 132)
\*   ok                    the audio path and the duration are returned (line 135)
ExtractOutcomes ==
    {"ok", "write_fail", "exit_nonzero", "exit_nonzero_partial", "decode_fail"}

ProducesAudio(oc) == oc \in {"ok", "exit_nonzero_partial", "decode_fail"}

ExtractPrimary(oc) ==
    CASE oc = "ok" -> "none"
      [] oc = "write_fail" -> "OSError(write)"
      [] oc \in {"exit_nonzero", "exit_nonzero_partial"} -> "CalledProcessError"
      [] oc = "decode_fail" -> "CouldntDecodeError"

M_ExtractFinally(d, p, primary, rmOk) ==
    IF VideoFile(p) \in d /\ rmOk /\ primary = "none" THEN d \ {VideoFile(p)} ELSE d

\* The finally clause of extract_audio (lines 139-141): the disk afterwards.
ExtractFinally(d, p, primary, rmOk) ==
    IF VideoFile(p) \in d /\ rmOk THEN d \ {VideoFile(p)} ELSE d

\* An exception raised inside a finally clause replaces the return value or the
\* exception in flight (lines 139-141, 156-158).
FinallyRaise(primary, f, d, rmOk) == IF f \in d /\ ~rmOk THEN "OSError(remove)" ELSE primary

M_extract_audio(p, oc, rmOk, d) ==
    IF oc = "write_fail"
    THEN [raised |-> ExtractPrimary(oc), disk |-> d \cup {VideoFile(p)}, msgs |-> <<>>]
    ELSE LET d1 == d \cup {VideoFile(p)} \cup (IF ProducesAudio(oc) THEN {AudioFile(p)} ELSE {})
             primary == ExtractPrimary(oc)
         IN  [raised |-> FinallyRaise("none", VideoFile(p), d1, rmOk),
              disk   |-> ExtractFinally(d1, p, primary, rmOk),
              msgs   |-> IF primary = "none" THEN <<>>
                         ELSE <<Msg("error", "extract_audio", 0)>>]

\* extract_audio (lines 115-141) for the upload of party p.
extract_audio(p, oc, rmOk, d) ==
    IF oc = "write_fail"
    THEN [raised |-> ExtractPrimary(oc), disk |-> d \cup {VideoFile(p)}, msgs |-> <<>>]
    ELSE LET d1 == d \cup {VideoFile(p)} \cup (IF ProducesAudio(oc) THEN {AudioFile(p)} ELSE {})
             primary == ExtractPrimary(oc)
         IN  [raised |-> FinallyRaise(primary, VideoFile(p), d1, rmOk),
              disk   |-> ExtractFinally(d1, p, primary, rmOk),
              msgs   |-> IF primary = "none" THEN <<>>
                         ELSE <<Msg("error", "extract_audio", 0)>>]

\* What os.remove answers when the finally clause reaches it.
RmState(attempted, rmOk) ==
    IF ~attempted THEN "na" ELSE IF rmOk THEN "permitted" ELSE "refused"

\* Lines 334-336 / 354-356.
ExtractAudio ==
    /\ pc = "Extract"
    /\ \E oc \in ExtractOutcomes, rmOk \in BOOLEAN :
         /\ (oc = "write_fail" => rmOk)
         /\ LET p == party
                r == extract_audio(p, oc, rmOk, disk)
            IN  /\ disk' = r.disk
                /\ calls' = Append(calls, Call("extract_audio", p, Empty, Empty))
                /\ env' = [env EXCEPT ![p].extract = oc,
                                      ![p].rmVideo = RmState(oc # "write_fail", rmOk)]
                /\ Continue(p, r.raised, r.msgs, <<"Transcribe", p>>)
    /\ UNCHANGED <<runs, uploaded, transcription, summary, sequence_check, key_facts,
                   contradictions, questions, cmp, shown>>
    /\ UNCHANGED <<preflight, aux>>

\* What can happen inside transcribe_audio before its finally clause: open()
\* raises, the speech service call raises, or a text is returned.
OpenFail == <<"<open failed>">>
ServiceFail == <<"<service failed>">>
SttOutcomes == {OpenFail, ServiceFail} \cup Transcripts

SttPrimary(oc) ==
    CASE oc = OpenFail -> "OSError(open)"
      [] oc = ServiceFail -> "APIError"
      [] OTHER -> "none"

M_TranscribeFinally(d, p, primary, rmOk) ==
    IF AudioFile(p) \in d /\ rmOk /\ primary = "none" THEN d \ {AudioFile(p)} ELSE d

\* The finally clause of transcribe_audio (lines 156-158): the disk afterwards.
TranscribeFinally(d, p, primary, rmOk) ==
    IF AudioFile(p) \in d /\ rmOk THEN d \ {AudioFile(p)} ELSE d

\* transcribe_audio (lines 144-158) on the audio file of party p.
transcribe_audio(p, oc, rmOk, d) ==
    LET primary == SttPrimary(oc)
    IN  [raised |-> FinallyRaise(primary, AudioFile(p), d, rmOk),
         value  |-> oc,
         disk   |-> TranscribeFinally(d, p, primary, rmOk),
         msgs   |-> IF primary = "none" THEN <<>>
                    ELSE <<Msg("error", "transcribe_audio", 0)>>]

\* Lines 337-338 / 357-358.
TranscribeAudio ==
    /\ pc = "Transcribe"
    /\ \E oc \in SttOutcomes, rmOk \in BOOLEAN :
         LET p == party
             r == transcribe_audio(p, oc, rmOk, disk)
         IN  /\ disk' = r.disk
             /\ calls' = Append(calls, Call("transcribe_audio", p, Empty, Empty))
             /\ env' = [env EXCEPT ![p].stt = oc,
                                   ![p].rmAudio = RmState(AudioFile(p) \in disk, rmOk)]
             /\ transcription' = IF r.raised = "none"
                                 THEN [transcription EXCEPT ![p] = r.value]
                                 ELSE transcription
             /\ Continue(p, r.raised, r.msgs, <<"Summarize", p>>)
    /\ UNCHANGED <<runs, uploaded, summary, sequence_check, key_facts,
                   contradictions, questions, cmp, shown>>
    /\ UNCHANGED <<preflight, aux>>

\* What the text-generation call may do: raise, or return a raw content.
GenFail == <<"<call failed>">>
GenOutcomes == {GenFail} \cup Responses

M_generate(fn, oc) ==
    IF oc = GenFail
    THEN [raised |-> "APIError", value |-> Empty, msgs |-> <<Msg("error", fn, 0)>>]
    ELSE [raised |-> "none", value |-> Strip(oc), msgs |-> <<>>]

\* The common body of summarize_text, check_sequence, extract_key_facts,
\* check_contradictions and formulate_questions (lines 163-263): the call and
\* the strip are inside try; the except clause reports and returns "".
generate(fn, oc) ==
    IF oc = GenFail
    THEN [raised |-> "none", value |-> Empty, msgs |-> <<Msg("error", fn, 0)>>]
    ELSE [raised |-> "none", value |-> Strip(oc), msgs |-> <<>>]

M12_SummarizeText ==
    /\ pc = "Summarize"
    /\ \E oc \in GenOutcomes :
         LET p == party
             r == generate("summarize_text", oc)
         IN  /\ calls' = Append(calls, Call("summarize_text", p, transcription[p], Empty))
             /\ env' = [env EXCEPT ![p].summarize_text = oc]
             /\ summary' = IF r.raised = "none" THEN [summary EXCEPT ![1] = r.value]
                           ELSE summary
             /\ Continue(p, r.raised, r.msgs, <<"Sequence", p>>)
    /\ UNCHANGED <<runs, uploaded, transcription, sequence_check, key_facts,
                   contradictions, questions, cmp, shown, disk>>
    /\ UNCHANGED <<preflight, aux>>

\* Lines 339-340 / 359-360.
SummarizeText ==
    /\ pc = "Summarize"
    /\ \E oc \in GenOutcomes :
         LET p == party
             r == generate("summarize_text", oc)
         IN  /\ calls' = Append(calls, Call("summarize_text", p, transcription[p], Empty))
             /\ env' = [env EXCEPT ![p].summarize_text = oc]
             /\ summary' = IF r.raised = "none" THEN [summary EXCEPT ![p] = r.value]
                           ELSE summary
             /\ Continue(p, r.raised, r.msgs, <<"Sequence", p>>)
    /\ UNCHANGED <<runs, uploaded, transcription, sequence_check, key_facts,
                   contradictions, questions, cmp, shown, disk>>
    /\ UNCHANGED <<preflight, aux>>

\* Lines 341-342 / 361-362.
CheckSequence ==
    /\ pc = "Sequence"
    /\ \E oc \in GenOutcomes :
         LET p == party
             r == generate("check_sequence", oc)
         IN  /\ calls' = Append(calls, Call("check_sequence", p, transcription[p], Empty))
             /\ env' = [env EXCEPT ![p].check_sequence = oc]
             /\ sequence_check' = IF r.raised = "none"
                                  THEN [sequence_check EXCEPT ![p] = r.value]
                                  ELSE sequence_check
             /\ Continue(p, r.raised, r.msgs, <<"KeyFacts", p>>)
    /\ UNCHANGED <<runs, uploaded, transcription, summary, key_facts,
                   contradictions, questions, cmp, shown, disk>>
    /\ UNCHANGED <<preflight, aux>>

\* Lines 343-344 / 363-364, then the end of the try block.
ExtractKeyFacts ==
    /\ pc = "KeyFacts"
    /\ \E oc \in GenOutcomes :
         LET p == party
             r == generate("extract_key_facts", oc)
         IN  /\ calls' = Append(calls, Call("extract_key_facts", p, transcription[p], Empty))
             /\ env' = [env EXCEPT ![p].extract_key_facts = oc]
             /\ key_facts' = IF r.raised = "none" THEN [key_facts EXCEPT ![p] = r.value]
                             ELSE key_facts
             /\ Continue(p, r.raised, r.msgs, AfterBranch(p))
    /\ UNCHANGED <<runs, uploaded, transcription, summary, sequence_check,
                   contradictions, questions, cmp, shown, disk>>
    /\ UNCHANGED <<preflight, aux>>

\* Rendering of the per-party results (lines 370-396).
ShowResults ==
    /\ pc = "Display"
    /\ shown' = {p \in Party : Truthy(transcription[p])}
    /\ pc' = "Compare"
    /\ UNCHANGED <<runs, party, uploaded, transcription, summary, sequence_check,
                   key_facts, contradictions, questions, caught, cmp, disk, messages,
                   calls, env>>
    /\ UNCHANGED <<preflight, aux>>

M_RunComparison(t1, t2) == Truthy(t1) \/ Truthy(t2)

\* "if transcription1 and transcription2:" (line 399)
RunComparison(t1, t2) == Truthy(t1) /\ Truthy(t2)

M_AfterContradictions(c) == IF Truthy(c) THEN "Questions" ELSE "Done"

\* Line 404 follows line 402 unconditionally.
AfterContradictions(c) == "Questions"

\* Lines 399-402.
CheckContradictions ==
    /\ pc = "Compare"
    /\ RunComparison(transcription[1], transcription[2])
    /\ \E oc \in GenOutcomes :
         LET r == generate("check_contradictions", oc)
         IN  /\ calls' = Append(calls, Call("check_contradictions", 0,
                                            transcription[1], transcription[2]))
             /\ env' = [env EXCEPT ![0].contradictions = oc]
             /\ contradictions' = r.value
             /\ messages' = Append(messages, Msg("header", "main", 0)) \o r.msgs
             /\ pc' = AfterContradictions(r.value)
             /\ cmp' = IF AfterContradictions(r.value) = "Done" THEN "Complete" ELSE "Running"
    /\ UNCHANGED <<runs, party, uploaded, transcription, summary, sequence_check,
                   key_facts, questions, caught, shown, disk>>
    /\ UNCHANGED <<preflight, aux>>

\* Lines 403-406.
FormulateQuestions ==
    /\ pc = "Questions"
    /\ \E oc \in GenOutcomes :
         LET r == generate("formulate_questions", oc)
         IN  /\ calls' = Append(calls, Call("formulate_questions", 0, contradictions, Empty))
             /\ env' = [env EXCEPT ![0].questions = oc]
             /\ questions' = r.value
             /\ messages' = messages \o r.msgs
    /\ pc' = "Done"
    /\ cmp' = "Complete"
    /\ UNCHANGED <<runs, party, uploaded, transcription, summary, sequence_check,
                   key_facts, contradictions, caught, shown, disk>>
    /\ UNCHANGED <<preflight, aux>>

\* Line 399 evaluates to false: the comparison block is not entered.
SkipComparison ==
    /\ pc = "Compare"
    /\ ~RunComparison(transcription[1], transcription[2])
    /\ pc' = "Done"
    /\ cmp' = "Skipped"
    /\ UNCHANGED <<runs, party, uploaded, transcription, summary, sequence_check,
                   key_facts, contradictions, questions, caught, shown, disk, messages,
                   calls, env>>
    /\ UNCHANGED <<preflight, aux>>

Next ==
    \/ LoadPage
    \/ PressButton
    \/ BranchStart
    \/ ExtractAudio
    \/ TranscribeAudio
    \/ SummarizeText
    \/ CheckSequence
    \/ ExtractKeyFacts
    \/ ShowResults
    \/ CheckContradictions
    \/ FormulateQuestions
    \/ SkipComparison

Spec == Init /\ [][Next]_vars

\* The steps the script takes by itself, once loaded or once the button is pressed.
ScriptStep ==
    \/ LoadPage
    \/ BranchStart
    \/ ExtractAudio
    \/ TranscribeAudio
    \/ SummarizeText
    \/ CheckSequence
    \/ ExtractKeyFacts
    \/ ShowResults
    \/ CheckContradictions
    \/ FormulateQuestions
    \/ SkipComparison

\* The script runs on as long as it has a statement to execute; every external
\* call is taken to return or fail.
FairSpec == Spec /\ WF_vars(ScriptStep)

(***************************************************************************)
(* The same stage functions with the stages of the two branches taken in   *)
(* any order (one branch first, the other first, or interleaved).  The     *)
(* call log and the reports of the branch stages record the order of the   *)
(* sequential program and are not kept here.                               *)
(***************************************************************************)

\* The button is pressed (lines 266-328); both branches become runnable.
AnyPress ==
    /\ pc \in {"Idle", "Done"}
    /\ runs < MaxRuns
    /\ runs' = runs + 1
    /\ \E up \in [Party -> BOOLEAN] : uploaded' = up
    /\ transcription' = [p \in Party |-> Empty]
    /\ summary' = [p \in Party |-> Empty]
    /\ sequence_check' = [p \in Party |-> Empty]
    /\ key_facts' = [p \in Party |-> Empty]
    /\ contradictions' = None
    /\ questions' = None
    /\ caught' = [p \in Party |-> "none"]
    /\ cmp' = "Pending"
    /\ shown' = {}
    /\ disk' = {}
    /\ calls' = <<>>
    /\ env' = [p \in Party |-> NoEnv] @@ (0 :> NoGen)
    /\ \E res \in PreflightOutcomes :
         /\ preflight' = res
         /\ messages' = PreflightMsgs(res)
         /\ pc' = IF PreflightPasses(res) THEN "Branches" ELSE "Stopped"
         /\ case_number' = IF PreflightPasses(res) THEN generate_case_number(clock)
                           ELSE None
    /\ party' = 1
    /\ at' = [p \in Party |-> "Start"]
    /\ UNCHANGED <<clock, first_case, language>>

\* A stage of the branch of party p has returned or raised (lines 333-346).
AnyContinue(p, raised, nxt) ==
    IF raised = "none"
    THEN /\ at' = [at EXCEPT ![p] = nxt]
         /\ UNCHANGED caught
    ELSE /\ at' = [at EXCEPT ![p] = "Settled"]
         /\ caught' = [caught EXCEPT ![p] = raised]

\* Lines 331 / 351.
AnyBranchStart(p) ==
    /\ pc = "Branches"
    /\ at[p] = "Start"
    /\ at' = [at EXCEPT ![p] = IF BranchRuns(uploaded, p) THEN "Extract" ELSE "Settled"]
    /\ UNCHANGED <<runs, pc, party, uploaded, transcription, summary, sequence_check,
                   key_facts, contradictions, questions, caught, cmp, shown, disk,
                   messages, calls, env, preflight, clock, case_number, first_case,
                   language>>

\* Lines 334-336 / 354-356.
AnyExtract(p) ==
    /\ pc = "Branches"
    /\ at[p] = "Extract"
    /\ \E oc \in ExtractOutcomes, rmOk \in BOOLEAN :
         /\ (oc = "write_fail" => rmOk)
         /\ LET r == extract_audio(p, oc, rmOk, disk)
            IN  /\ disk' = r.disk
                /\ env' = [env EXCEPT ![p].extract = oc,
                                      ![p].rmVideo = RmState(oc # "write_fail", rmOk)]
                /\ AnyContinue(p, r.raised, "Transcribe")
    /\ UNCHANGED <<runs, pc, party, uploaded, transcription, summary, sequence_check,
                   key_facts, contradictions, questions, cmp, shown, messages, calls,
                   preflight, clock, case_number, first_case, language>>

\* Lines 337-338 / 357-358.
AnyTranscribe(p) ==
    /\ pc = "Branches"
    /\ at[p] = "Transcribe"
    /\ \E oc \in SttOutcomes, rmOk \in BOOLEAN :
         LET r == transcribe_audio(p, oc, rmOk, disk)
         IN  /\ disk' = r.disk
             /\ env' = [env EXCEPT ![p].stt = oc,
                                   ![p].rmAudio = RmState(AudioFile(p) \in disk, rmOk)]
             /\ transcription' = IF r.raised = "none"
                                 THEN [transcription EXCEPT ![p] = r.value]
                                 ELSE transcription
             /\ AnyContinue(p, r.raised, "Summarize")
    /\ UNCHANGED <<runs, pc, party, uploaded, summary, sequence_check, key_facts,
                   contradictions, questions, cmp, shown, messages, calls, preflight,
                   clock, case_number, first_case, language>>

\* Lines 339-340 / 359-360.
AnySummarize(p) ==
    /\ pc = "Branches"
    /\ at[p] = "Summarize"
    /\ \E oc \in GenOutcomes :
         LET r == generate("summarize_text", oc)
         IN  /\ env' = [env EXCEPT ![p].summarize_text = oc]
             /\ summary' = IF r.raised = "none" THEN [summary EXCEPT ![p] = r.value]
                           ELSE summary
             /\ AnyContinue(p, r.raised, "Sequence")
    /\ UNCHANGED <<runs, pc, party, uploaded, transcription, sequence_check, key_facts,
                   contradictions, questions, cmp, shown, disk, messages, calls,
                   preflight, clock, case_number, first_case, language>>

\* Lines 341-342 / 361-362.
AnySequence(p) ==
    /\ pc = "Branches"
    /\ at[p] = "Sequence"
    /\ \E oc \in GenOutcomes :
         LET r == generate("check_sequence", oc)
         IN  /\ env' = [env EXCEPT ![p].check_sequence = oc]
             /\ sequence_check' = IF r.raised = "none"
                                  THEN [sequence_check EXCEPT ![p] = r.value]
                                  ELSE sequence_check
             /\ AnyContinue(p, r.raised, "KeyFacts")
    /\ UNCHANGED <<runs, pc, party, uploaded, transcription, summary, key_facts,
                   contradictions, questions, cmp, shown, disk, messages, calls,
                   preflight, clock, case_number, first_case, language>>

\* Lines 343-344 / 363-364.
AnyKeyFacts(p) ==
    /\ pc = "Branches"
    /\ at[p] = "KeyFacts"
    /\ \E oc \in GenOutcomes :
         LET r == generate("extract_key_facts", oc)
         IN  /\ env' = [env EXCEPT ![p].extract_key_facts = oc]
             /\ key_facts' = IF r.raised = "none" THEN [key_facts EXCEPT ![p] = r.value]
                             ELSE key_facts
             /\ AnyContinue(p, r.raised, "Settled")
    /\ UNCHANGED <<runs, pc, party, uploaded, transcription, summary, sequence_check,
                   contradictions, questions, cmp, shown, disk, messages, calls,
                   preflight, clock, case_number, first_case, language>>

\* Both branches have settled: main goes on to line 370.
AnyJoin ==
    /\ pc = "Branches"
    /\ \A p \in Party : at[p] = "Settled"
    /\ pc' = "Display"
    /\ party' = 2
    /\ UNCHANGED <<runs, uploaded, transcription, summary, sequence_check, key_facts,
                   contradictions, questions, caught, cmp, shown, disk, messages,
                   calls, env, preflight, at, clock, case_number, first_case, language>>

NextAnyOrder ==
    \/ LoadPage
    \/ AnyPress
    \/ \E p \in Party : AnyBranchStart(p)
    \/ \E p \in Party : AnyExtract(p)
    \/ \E p \in Party : AnyTranscribe(p)
    \/ \E p \in Party : AnySummarize(p)
    \/ \E p \in Party : AnySequence(p)
    \/ \E p \in Party : AnyKeyFacts(p)
    \/ AnyJoin
    \/ ShowResults
    \/ CheckContradictions
    \/ FormulateQuestions
    \/ SkipComparison

SpecAnyOrder == Init /\ [][NextAnyOrder]_vars

(***************************************************************************)
(* The page across script re-runs.  Every interaction with a widget        *)
(* re-runs main from the top: the checks of lines 270-285, the widgets of  *)
(* lines 291-316 (line 305 calls generate_case_number()), and, when the    *)
(* interaction was the button, the pipeline.  The pipeline is reduced here *)
(* to its rendering: the panels and download buttons of lines 371-396 are  *)
(* rendered for some of the uploaded parties.                              *)
(***************************************************************************)

\* file_name of the download button of party p (lines 380, 394; the prefix
\* stands for "Протокол_лицо").
DownloadName(p) == <<"Protocol_party", p, case_number>>

\* Time passes.
Tick ==
    /\ clock < MaxClock
    /\ clock' = clock + 1
    /\ UNCHANGED <<runs, pc, party, uploaded, transcription, summary, sequence_check,
                   key_facts, contradictions, questions, caught, cmp, shown, disk,
                   messages, calls, env, preflight, at, case_number, first_case,
                   language>>

\* One script run after an interaction that left the uploads up and the
\* language lang; pressed tells whether the interaction was the button.
Rerun(up, lang, pressed) ==
    /\ pc \in {"Idle", "Done"}
    /\ uploaded' = up
    /\ language' = lang
    /\ \E res \in PreflightOutcomes :
         /\ preflight' = res
         /\ messages' = PreflightMsgs(res)
         /\ case_number' = IF PreflightPasses(res) THEN generate_case_number(clock)
                           ELSE None
         /\ IF PreflightPasses(res) /\ pressed
            THEN /\ pc' = "Done"
                 /\ \E sh \in SUBSET {p \in Party : up[p]} : shown' = sh
            ELSE /\ pc' = IF PreflightPasses(res) THEN "Idle" ELSE "Stopped"
                 /\ shown' = {}
    /\ UNCHANGED <<runs, party, transcription, summary, sequence_check, key_facts,
                   contradictions, questions, caught, cmp, disk, calls, env, at,
                   clock, first_case>>

\* Lines 308-316.
SelectLanguage == \E l \in Languages \ {language} : Rerun(uploaded, l, FALSE)

\* Lines 291-300: a file is uploaded or removed.
ChangeUpload ==
    \E p \in Party : Rerun([uploaded EXCEPT ![p] = ~uploaded[p]], language, FALSE)

\* Line 324.
PressStart == Rerun(uploaded, language, TRUE)

NextSession ==
    \/ LoadPage
    \/ Tick
    \/ SelectLanguage
    \/ ChangeUpload
    \/ PressStart

SpecSession == Init /\ [][NextSession]_vars

(***************************************************************************)
(* Vocabulary of the properties                                            *)
(***************************************************************************)

Invoked(fn, p) == \E i \in DOMAIN calls : calls[i].fn = fn /\ calls[i].party = p

CallsOf(fn) == {i \in DOMAIN calls : calls[i].fn = fn}

Reported(kind, src, p) == \E i \in DOMAIN messages : messages[i] = Msg(kind, src, p)

BranchPcs == {"Branch", "Extract", "Transcribe", "Summarize", "Sequence", "KeyFacts"}

\* The branch of party p has completed, failed or been skipped.
Settled(p) ==
    \/ pc \in {"Display", "Compare", "Questions", "Done"}
    \/ pc \in BranchPcs /\ party > p

\* extract_audio / transcribe_audio was called and did not return, judged by
\* what the collaborators answered.
ExtractRaised(e) == e.extract \notin {"na", "ok"} \/ e.rmVideo = "refused"
TranscribeRaised(e) == e.stt \in {OpenFail, ServiceFail} \/ e.rmAudio = "refused"
TranscribeReturned(e) == e.stt \in Transcripts /\ e.rmAudio = "permitted"

PartyResult(p) ==
    [transcript |-> transcription[p], summary |-> summary[p],
     sequenceCheck |-> sequence_check[p], keyFacts |-> key_facts[p]]

EmptyResult ==
    [transcript |-> Empty, summary |-> Empty, sequenceCheck |-> Empty, keyFacts |-> Empty]

GenField(s, p) ==
    CASE s = "summarize_text" -> summary[p]
      [] s = "check_sequence" -> sequence_check[p]
      [] s = "extract_key_facts" -> key_facts[p]

GenAnswer(e, s) ==
    CASE s = "summarize_text" -> e.summarize_text
      [] s = "check_sequence" -> e.check_sequence
      [] s = "extract_key_facts" -> e.extract_key_facts

\* The result a branch run on its own yields from the answers e it was given.
OwnText(e, s) ==
    IF TranscribeReturned(e) /\ GenAnswer(e, s) \in Responses
    THEN Strip(GenAnswer(e, s)) ELSE Empty

BranchResult(e) ==
    [transcript |-> IF TranscribeReturned(e) THEN e.stt ELSE Empty,
     summary |-> OwnText(e, "summarize_text"),
     sequenceCheck |-> OwnText(e, "check_sequence"),
     keyFacts |-> OwnText(e, "extract_key_facts")]

\* The stages a branch run on its own goes through, from its upload and answers.
BranchStages(up, e) ==
    IF ~up THEN {}
    ELSE {"extract_audio"}
         \cup (IF e.extract = "ok" /\ e.rmVideo = "permitted" THEN {"transcribe_audio"} ELSE {})
         \cup (IF TranscribeReturned(e) THEN GenStages ELSE {})

StagesRun(p) == {calls[i].fn : i \in {j \in DOMAIN calls : calls[j].party = p}}

(***************************************************************************)
(* C1..C10                                                                 *)
(***************************************************************************)

\* C1: check_contradictions is invoked if and only if, once both branches have
\* settled, transcription1 and transcription2 are both non-empty; when an upload
\* is missing or a branch failed in extraction or transcription, neither
\* check_contradictions nor formulate_questions is invoked and no comparison
\* result exists.
C1_ComparisonIffBothTranscripts ==
    /\ Invoked("check_contradictions", 0)
         => Truthy(transcription[1]) /\ Truthy(transcription[2])
    /\ pc = "Done" =>
         /\ (Truthy(transcription[1]) /\ Truthy(transcription[2]))
              => Invoked("check_contradictions", 0)
         /\ (\E p \in Party : \/ ~uploaded[p]
                              \/ ExtractRaised(env[p])
                              \/ TranscribeRaised(env[p]))
              => /\ ~Invoked("check_contradictions", 0)
                 /\ ~Invoked("formulate_questions", 0)
                 /\ contradictions = None
                 /\ questions = None
                 /\ cmp = "Skipped"

C1_Witness ==
    /\ pc = "Done"
    /\ Invoked("check_contradictions", 0)
    /\ cmp = "Complete"
    /\ Truthy(transcription[1]) /\ Truthy(transcription[2])

\* C2: when extract_audio or transcribe_audio raises in one branch, the other
\* branch still goes through exactly the stages its own upload and answers
\* call for, its final result is the one it yields on its own, and the run
\* reaches the comparison decision.
C2_BranchIsolation ==
    pc = "Done" =>
        /\ \A p \in Party :
             /\ StagesRun(p) = BranchStages(uploaded[p], env[p])
             /\ PartyResult(p) = BranchResult(env[p])
        /\ cmp \in {"Skipped", "Complete"}

C2_Witness ==
    /\ pc = "Done"
    /\ ExtractRaised(env[1])
    /\ caught[1] # "none"
    /\ uploaded[2]
    /\ StagesRun(2) = {"extract_audio", "transcribe_audio"} \cup GenStages
    /\ Truthy(transcription[2]) /\ Truthy(key_facts[2])

\* C3 (as claimed): at Done no temporary video or audio file of the run exists,
\* also when extract_audio failed after the audio output had been produced
\* (removals refused by the file system and a failed write of the temporary
\* video set aside).
C3_NoTempFileAtDone ==
    pc = "Done" =>
        \A p \in Party :
            (/\ env[p].rmVideo # "refused"
             /\ env[p].rmAudio # "refused"
             /\ env[p].extract # "write_fail")
            => VideoFile(p) \notin disk /\ AudioFile(p) \notin disk

\* C4: after extract_audio has returned or raised (conversion success, non-zero
\* exit, decode failure), the temporary video it wrote no longer exists; the
\* file system refusing the removal is the case of C8.
C4_VideoRemoved ==
    \A p \in Party :
        (/\ env[p].extract \in {"ok", "exit_nonzero", "exit_nonzero_partial", "decode_fail"}
         /\ env[p].rmVideo = "permitted")
        => VideoFile(p) \notin disk

C4_Witness ==
    \E p \in Party :
        /\ env[p].extract = "decode_fail"
        /\ env[p].rmVideo = "permitted"
        /\ Invoked("extract_audio", p)
        /\ VideoFile(p) \notin disk

\* C5: after transcribe_audio has returned a transcript or raised (open failure,
\* speech-service failure), the audio file passed to it no longer exists; the
\* file system refusing the removal is the case of C8.
C5_AudioRemoved ==
    \A p \in Party :
        (env[p].stt \in SttOutcomes /\ env[p].rmAudio = "permitted")
        => AudioFile(p) \notin disk

C5_Witness ==
    \E p \in Party :
        /\ env[p].stt = ServiceFail
        /\ env[p].rmAudio = "permitted"
        /\ Invoked("transcribe_audio", p)
        /\ AudioFile(p) \notin disk

\* C6: when the text-generation call of summarize_text, check_sequence or
\* extract_key_facts fails, the operation yields "" and reports an error; the
\* branch is not marked failed, its transcript stays, and once the branch has
\* settled all three analyses have been invoked, each one whose call succeeded
\* having filled its own field.
C6_SoftFailure ==
    \A p \in Party : \A s \in GenStages :
        GenAnswer(env[p], s) = GenFail
        => /\ GenField(s, p) = Empty
           /\ Reported("error", s, 0)
           /\ caught[p] = "none"
           /\ ~Reported("error", "main", p)
           /\ transcription[p] = env[p].stt
           /\ Settled(p) =>
                \A s2 \in GenStages :
                    /\ Invoked(s2, p)
                    /\ GenAnswer(env[p], s2) \in Responses
                         => GenField(s2, p) = Strip(GenAnswer(env[p], s2))

C6_Witness ==
    /\ pc = "Done"
    /\ \E p \in Party :
         /\ env[p].summarize_text = GenFail
         /\ summary[p] = Empty
         /\ sequence_check[p] = <<"y">>
         /\ key_facts[p] = <<"y">>

\* C7: if extract_audio or transcribe_audio raises in a branch, the branch is
\* marked failed with an error reported for that party, no later stage of the
\* branch is invoked, and transcript, summary, sequenceCheck and keyFacts of
\* the party are all empty.
C7_HardFailure ==
    \A p \in Party :
        (ExtractRaised(env[p]) \/ TranscribeRaised(env[p]))
        => /\ caught[p] # "none"
           /\ Reported("error", "main", p)
           /\ ExtractRaised(env[p]) => ~Invoked("transcribe_audio", p)
           /\ \A s \in GenStages : ~Invoked(s, p)
           /\ PartyResult(p) = EmptyResult

C7_Witness ==
    /\ pc = "Done"
    /\ \E p \in Party :
         /\ env[p].stt = ServiceFail
         /\ caught[p] = "APIError"
         /\ PartyResult(p) = EmptyResult

\* C8 (as claimed): a failed removal of the temporary video or audio file does
\* not mask the primary outcome: extract_audio still returns or raises its
\* conversion error, transcribe_audio still returns the transcript or raises
\* its transcription error.
C8_CleanupFailureDoesNotMask ==
    \A p \in Party :
        Settled(p) =>
            /\ env[p].extract \in {"exit_nonzero", "exit_nonzero_partial", "decode_fail"}
                 => caught[p] = ExtractPrimary(env[p].extract)
            /\ env[p].extract = "ok" => Invoked("transcribe_audio", p)
            /\ env[p].stt \in Transcripts
                 => transcription[p] = env[p].stt /\ caught[p] = "none"
            /\ env[p].stt \in {OpenFail, ServiceFail}
                 => caught[p] = SttPrimary(env[p].stt)

\* C9: whenever the comparison runs, formulate_questions is invoked exactly once,
\* right after check_contradictions and with its result as sole input, also when
\* check_contradictions failed softly and returned ""; it then yields a text.
C9_QuestionsAfterContradictions ==
    /\ \A i \in CallsOf("formulate_questions") :
         /\ i > 1
         /\ calls[i - 1].fn = "check_contradictions"
         /\ calls[i].text1 = contradictions
    /\ Cardinality(CallsOf("check_contradictions")) <= 1
    /\ pc = "Done" =>
         \A i \in CallsOf("check_contradictions") :
             /\ i + 1 = Len(calls)
             /\ calls[i + 1].fn = "formulate_questions"
             /\ contradictions # None
             /\ questions # None
             /\ env[0].questions \in Responses => questions = Strip(env[0].questions)
             /\ env[0].questions = GenFail => questions = Empty
             /\ cmp = "Complete"

C9_Witness ==
    /\ pc = "Done"
    /\ env[0].contradictions = GenFail
    /\ contradictions = Empty
    /\ \E i \in CallsOf("formulate_questions") : calls[i].text1 = Empty
    /\ questions = <<"y">>

\* C10: a branch whose upload is absent is skipped: no stage is invoked for it
\* and no temporary file is created for it; with no upload at all the run
\* reaches Done with both branches skipped, no external call made and the
\* comparison skipped.
C10_AbsentUploadSkipped ==
    /\ \A p \in Party :
         ~uploaded[p] =>
             /\ StagesRun(p) = {}
             /\ env[p] = NoEnv
             /\ VideoFile(p) \notin disk /\ AudioFile(p) \notin disk
             /\ Settled(p) => Reported("warning", "main", p) /\ caught[p] = "none"
    /\ (pc = "Done" /\ \A p \in Party : ~uploaded[p]) =>
         /\ calls = <<>>
         /\ env[0] = NoGen
         /\ cmp = "Skipped"
         /\ contradictions = None /\ questions = None

C10_Witness ==
    /\ pc = "Done"
    /\ runs >= 1
    /\ \A p \in Party : ~uploaded[p] /\ Reported("warning", "main", p)
    /\ cmp = "Skipped"

(***************************************************************************)
(* C11..C19                                                                *)
(***************************************************************************)

\* The stage calls of the branch of party p, in call order.
PartyCalls(p) == SelectSeq(calls, LAMBDA c : c.party = p)

StageOrder ==
    <<"extract_audio", "transcribe_audio", "summarize_text", "check_sequence",
      "extract_key_facts">>

AllStages == {StageOrder[k] : k \in DOMAIN StageOrder}

\* C11: the run/skip condition of the comparison is evaluated only when both
\* branches have gone through every stage their upload and answers call for;
\* check_contradictions is invoked after every branch stage call, and the
\* transcripts it receives are the transcripts of both branches as they stay.
C11_StrictJoin ==
    /\ (pc = "Compare" \/ cmp # "Pending") =>
         \A p \in Party : StagesRun(p) = BranchStages(uploaded[p], env[p])
    /\ \A i \in CallsOf("check_contradictions") :
         /\ calls[i].text1 = transcription[1]
         /\ calls[i].text2 = transcription[2]
         /\ \A j \in DOMAIN calls : calls[j].party \in Party => j < i

C11_Witness ==
    /\ pc = "Questions"
    /\ Invoked("check_contradictions", 0)
    /\ \A p \in Party : StagesRun(p) = AllStages

\* C12: a stage of the branch of one party leaves transcript, summary,
\* sequenceCheck and keyFacts of the other party unchanged, and the rendering
\* and comparison steps leave both parties' results unchanged.
C12_FrameBetweenBranches ==
    [][/\ pc \in BranchPcs =>
            \A p \in Party \ {party} : PartyResult(p)' = PartyResult(p)
       /\ pc \in {"Display", "Compare", "Questions"} =>
            \A p \in Party : PartyResult(p)' = PartyResult(p)]_vars

C12_Witness ==
    /\ pc = "Done"
    /\ cmp = "Complete"
    /\ \A p \in Party : summary[p] = <<"y">> /\ key_facts[p] = <<"y">>
    /\ transcription[1] = <<"x">> /\ transcription[2] = <<Space>>

\* C16: within one run every stage of a branch is invoked at most once and in
\* the order extraction, transcription, summary, sequence check, key facts;
\* transcribe_audio only after extract_audio of the party returned, the three
\* analyses only after transcribe_audio of the party returned.
C16_StageOrderSingleAttempt ==
    \A p \in Party :
        /\ \E n \in 0..Len(StageOrder) :
             /\ Len(PartyCalls(p)) = n
             /\ \A k \in 1..n : PartyCalls(p)[k].fn = StageOrder[k]
        /\ Invoked("transcribe_audio", p) =>
             env[p].extract = "ok" /\ env[p].rmVideo = "permitted"
        /\ \A s \in GenStages : Invoked(s, p) => TranscribeReturned(env[p])

C16_Witness ==
    /\ pc = "Done"
    /\ Len(PartyCalls(1)) = Len(StageOrder)
    /\ caught[2] = "CouldntDecodeError"
    /\ Len(PartyCalls(2)) = 1

\* Position of main within one run; it grows with every step of the run.
PcRank(c) ==
    CASE c = "Branch" -> 1
      [] c = "Extract" -> 2
      [] c = "Transcribe" -> 3
      [] c = "Summarize" -> 4
      [] c = "Sequence" -> 5
      [] c = "KeyFacts" -> 6
      [] c = "Display" -> 13
      [] c = "Compare" -> 14
      [] c = "Questions" -> 15
      [] c = "Done" -> 16
      [] OTHER -> 0

Rank(c, p) == IF c \in BranchPcs THEN PcRank(c) + 6 * (p - 1) ELSE PcRank(c)

\* C17: every run the button starts eventually reaches Done, with the comparison
\* either complete or skipped and decided once, for every combination of
\* uploads and stage outcomes; no position of the run is visited twice.
C17_Termination ==
    /\ [](pc = "Branch" /\ party = 1 => <>(pc = "Done"))
    /\ [](pc = "Done" => cmp \in {"Complete", "Skipped"})
    /\ [][/\ pc \in BranchPcs \cup {"Display", "Compare", "Questions"}
               => Rank(pc', party') > Rank(pc, party)
          /\ (cmp \in {"Complete", "Skipped"} /\ pc # "Done") => cmp' = cmp]_vars

C17_Witness ==
    /\ pc = "Done"
    /\ cmp = "Skipped"
    /\ caught[1] = "CalledProcessError"
    /\ ~uploaded[2]

\* C18: when transcribe_audio returns "", the three analyses of the branch are
\* still invoked, on the empty text, and fill their fields; the party's results
\* are not rendered and the comparison is skipped. A party's results are
\* rendered if and only if its transcript is non-empty.
C18_EmptyTranscript ==
    /\ \A p \in Party :
         (env[p].stt = Empty /\ env[p].rmAudio = "permitted") =>
             /\ Settled(p) =>
                  \A s \in GenStages :
                      /\ \E i \in DOMAIN calls :
                           calls[i] = Call(s, p, Empty, Empty)
                      /\ GenField(s, p) = OwnText(env[p], s)
             /\ pc \in {"Compare", "Questions", "Done"} => p \notin shown
             /\ pc = "Done" => cmp = "Skipped" /\ ~Invoked("check_contradictions", 0)
    /\ pc \in {"Compare", "Questions", "Done"} =>
         \A p \in Party :
             p \in shown <=> (TranscribeReturned(env[p]) /\ env[p].stt # Empty)

C18_Witness ==
    /\ pc = "Done"
    /\ env[1].stt = Empty
    /\ key_facts[1] = <<"y">>
    /\ shown = {2}
    /\ cmp = "Skipped"

\* C19: when check_ffmpeg fails or init_openai returns None, the script run
\* stops before the form: no stage of either branch and no comparison is
\* invoked, no temporary file is created and nothing further happens,
\* whatever was uploaded.
C19_PreflightGating ==
    preflight \in {"no_ffmpeg", "no_client"} =>
        /\ pc = "Stopped"
        /\ calls = <<>>
        /\ disk = {}
        /\ \A p \in Party : PartyResult(p) = EmptyResult /\ env[p] = NoEnv
        /\ env[0] = NoGen
        /\ shown = {}
        /\ cmp = "Pending"
        /\ ~ENABLED Next

C19_Witness ==
    /\ preflight = "no_client"
    /\ pc = "Stopped"
    /\ runs = 1
    /\ \A p \in Party : uploaded[p]

\* The reports rendered below the header of party p ("Обработка показаний лица
\* №p", lines 332/352; the comparison header, line 400, counts as party 0) and
\* above the next header.
InSection(i, p) ==
    \E h \in 1..i :
        /\ messages[h] = Msg("header", "main", p)
        /\ \A k \in (h + 1)..i : messages[k].kind # "header"

\* Some error report names the stage and can be attributed to the party, by its
\* text or by the section it is rendered in.
Attributed(stage, p) ==
    \E i \in DOMAIN messages :
        /\ messages[i].kind = "error"
        /\ messages[i].src = stage
        /\ messages[i].party = p \/ InSection(i, p)

\* C14 (as claimed): every failure of a stage (extraction, transcription, the
\* three analyses, contradiction check, question formulation) yields an error
\* report attributable to the stage that failed and to the party of the branch.
C14_FailureAttributed ==
    /\ \A p \in Party :
         /\ ExtractRaised(env[p]) => Attributed("extract_audio", p)
         /\ TranscribeRaised(env[p]) => Attributed("transcribe_audio", p)
         /\ \A s \in GenStages :
              GenAnswer(env[p], s) = GenFail => Attributed(s, p)
    /\ env[0].contradictions = GenFail => Attributed("check_contradictions", 0)
    /\ env[0].questions = GenFail => Attributed("formulate_questions", 0)

\* What the code does meet: a stage failure that the stage function
\* itself catches (its except clause) is reported with the stage's name in the
\* section of the party, and every raise out of a branch is reported for the party.
CaughtFailuresReported ==
    /\ \A p \in Party :
         /\ env[p].extract \in {"exit_nonzero", "exit_nonzero_partial", "decode_fail"}
              => Attributed("extract_audio", p)
         /\ env[p].stt \in {OpenFail, ServiceFail} => Attributed("transcribe_audio", p)
         /\ \A s \in GenStages :
              GenAnswer(env[p], s) = GenFail => Attributed(s, p)
         /\ (ExtractRaised(env[p]) \/ TranscribeRaised(env[p]))
              => Reported("error", "main", p)
    /\ env[0].contradictions = GenFail => Attributed("check_contradictions", 0)
    /\ env[0].questions = GenFail => Attributed("formulate_questions", 0)

\* What a text-generation answer turns into (the stripped content, "" on failure).
GenValue(oc) == IF oc \in Responses THEN Strip(oc) ELSE Empty

\* The result bundle is the one the uploads and the answers determine: each
\* party's result is the one its branch yields on its own, and the comparison
\* result exists exactly when both transcripts are non-empty and is what the
\* two text-generation answers determine.
BundleDetermined ==
    /\ \A p \in Party : PartyResult(p) = BranchResult(env[p])
    /\ IF \A p \in Party : BranchResult(env[p]).transcript # Empty
       THEN /\ cmp = "Complete"
            /\ contradictions = GenValue(env[0].contradictions)
            /\ questions = GenValue(env[0].questions)
       ELSE /\ cmp = "Skipped"
            /\ contradictions = None
            /\ questions = None
            /\ env[0] = NoGen

\* No temporary file of the run is left (removals the file system refuses and a
\* failed write of the temporary video set aside).
NoTempFileLeft ==
    \A p \in Party :
        (/\ env[p].rmVideo # "refused"
         /\ env[p].rmAudio # "refused"
         /\ env[p].extract # "write_fail")
        => VideoFile(p) \notin disk /\ AudioFile(p) \notin disk

\* C13 (as claimed): whatever the order in which the stages of the two branches
\* run, the final result bundle is the one the uploads and the per-stage
\* outcomes determine, and the cleanup, isolation and comparison-gating
\* invariants hold.
C13_OrderIndependence ==
    pc = "Done" => BundleDetermined /\ NoTempFileLeft

\* What does hold in every order: the final bundle depends on the uploads and
\* the outcomes only.
AnyOrderBundleDetermined == pc = "Done" => BundleDetermined

\* C15 (as claimed): the case identifier is generated once at session start;
\* after any sequence of interactions (language, uploads, start button) the
\* identifier shown and the one in the download file names of both parties is
\* still that value.
C15_CaseNumberImmutable ==
    (first_case # None /\ case_number # None) =>
        /\ case_number = first_case
        /\ \A p \in shown : DownloadName(p) = <<"Protocol_party", p, first_case>>
====
